---- MODULE Spec2Model ----
(***************************************************************************)
(* A model of libmosquitto-sys/pthread.h: the pthread compatibility        *)
(* header that maps pthread_create / pthread_join / pthread_self /         *)
(* pthread_equal and the pthread_mutex_* calls onto Win32 handles.         *)
(*                                                                         *)
(* The Win32 kernel objects the header calls into (handle table, events,   *)
(* threads, mutexes, WaitForSingleObject, CloseHandle, ...) are modelled   *)
(* by their documented behaviour.  Client code is any sequence of calls    *)
(* that respects the caller obligations of the pthread API (a pthread_t    *)
(* is joined once, a mutex is used between init and destroy).              *)
(***************************************************************************)
EXTENDS Integers, Naturals, Sequences, FiniteSets, TLC

\* ------------------------------------------------------------------ bounds
MaxThreads == 1      \* threads that CreateThread can start (besides thread 0)
MaxHandles == 4      \* size of the process handle table
MaxSlots   == 2      \* pthread_t variables of the client
MaxMutexes == 1      \* pthread_mutex_t variables of the client
MaxRecursion == 2    \* cap on the recursion count of a native mutex
Workers    == 2      \* N: threads of the shared counter scenario
Iterations == 1      \* K: increments each of them makes

\* ----------------------------------------------------------------- values
\* the most threads any client of this model has CreateThread start
NThreads   == IF Workers > MaxThreads THEN Workers ELSE MaxThreads

Threads    == 0 .. NThreads            \* thread 0 is the process' first thread
Started    == 1 .. NThreads            \* threads started by CreateThread
HandleVals == 1 .. MaxHandles          \* values of real (table) handles
Slots      == 1 .. MaxSlots
Mutexes    == 1 .. MaxMutexes

NULL       == 0
NoThread   == -1

\* errno values of the Windows CRT (errno.h)
ENOMEM     == 12
EINVAL     == 22
EDEADLK    == 36
ENOSYS     == 40

\* the client's start routines and their arguments; BadRoutine and JunkArg
\* are what a read of a torn-down stack frame can additionally yield
Routines   == {"R1"}
Args       == {"A1", "A2"}
BadRoutine == "bad"
JunkArg    == "junk"
NoRoutine  == "none"

\* A pointer-sized value (void * of the 64-bit Windows target, where DWORD
\* stays 32 bits wide) as its two 32-bit halves; a DWORD is one such half.
Words      == {7}
HiWords    == {0, 1}
PtrVals    == [hi : HiWords, lo : Words]
NullPtr    == [hi |-> 0, lo |-> 0]   \* (void*)0

\* (DWORD)p : the conversion keeps the low 32 bits
PtrToDWORD(p) == p.lo

\* (void*)status : the DWORD is zero-extended to pointer width
DWORDToPtr(d) == [hi |-> 0, lo |-> d]

\* exit code GetExitCodeThread reports for a thread that has not terminated
STILL_ACTIVE == 259

\* ------------------------------------------------------------------ state
VARIABLES
  pc,        \* pc[t]      : position of thread t
  handles,   \* handles[h] : the kernel object behind handle value h
  exitCode,  \* exitCode[t]: native exit code (DWORD) of a terminated thread
  info,      \* info[t]    : struct pthread_create_trampoline_info in the
             \*              frame of t's pthread_create call
  cslot,     \* cslot[t]   : the pthread_t *thread parameter of that call
  creatorOf, \* creatorOf[n]: LPVOID p of the trampoline of n (whose frame)
  ctxLive,   \* ctxLive[n] : the frame p points to still exists
  tinfo,     \* tinfo[n]   : the trampoline's local copy of *p
  tvar,      \* tvar[s]    : the client's pthread_t variables
  sstate,    \* sstate[s]  : what the client did with tvar[s]
  jh,        \* jh[t]      : pthread_t thread parameter of t's pthread_join
  jrv,       \* jrv[t]     : t's pthread_join has a non-null retval
  mtx,       \* mtx[m]     : the client's pthread_mutex_t variables
  mstate,    \* mstate[m]  : what the client did with mtx[m]
  lk,        \* lk[t]      : result of t's pthread_mutex_lock not yet followed
             \*              by its pthread_mutex_unlock
  asked,     \* asked[n]   : <<start_routine, arg>> of the pthread_create call
             \*              whose CreateThread started n
  invoked,   \* invoked[n] : the calls <<routine, arg>> the trampoline of n made
  retV,      \* retV[n]    : the value n's start routine returned
  last,      \* the most recently completed call and what it returned
  quota,     \* the number of threads CreateThread can still start
  counter,   \* the shared counter of the counter scenario
  tmp,       \* tmp[n]     : the value of counter that worker n read
  wpc,       \* wpc[n]     : position of worker n in its loop
  iter       \* iter[n]    : the increments worker n has completed

vars == <<pc, handles, exitCode, info, cslot, creatorOf, ctxLive, tinfo, tvar,
          sstate, jh, jrv, mtx, mstate, lk, asked, invoked, retV, last,
          quota, counter, tmp, wpc, iter>>

\* the variables of the client program of the counter scenario
cvars == <<counter, tmp, wpc, iter>>

\* ------------------------------------------------------- Win32 primitives
NoObj == [kind |-> "none", th |-> NoThread, sig |-> FALSE,
          owner |-> NoThread, count |-> 0, abandoned |-> FALSE]

EventObj == [kind |-> "event", th |-> NoThread, sig |-> FALSE,
             owner |-> NoThread, count |-> 0, abandoned |-> FALSE]

ThreadObj(n) == [kind |-> "thread", th |-> n, sig |-> FALSE,
                 owner |-> NoThread, count |-> 0, abandoned |-> FALSE]

MutexObj == [kind |-> "mutex", th |-> NoThread, sig |-> FALSE,
             owner |-> NoThread, count |-> 0, abandoned |-> FALSE]

\* GetCurrentThread() returns the pseudo handle (HANDLE)-2 in every thread
CurrentThreadPseudoHandle == 0 - 2

GetCurrentThread(t) == CurrentThreadPseudoHandle

\* a handle value that names an open object of the handle table
IsOpen(h) == h \in HandleVals /\ handles[h].kind # "none"

FreeHandles == {h \in HandleVals : handles[h].kind = "none"}

\* the value a successful Create* call returns
NewHandle == CHOOSE h \in FreeHandles : \A g \in FreeHandles : h <= g

Terminated(n) == pc[n] = "exited"

\* the thread a handle value refers to when thread t uses it
ThreadOf(h, t) ==
  IF h = CurrentThreadPseudoHandle THEN t
  ELSE IF IsOpen(h) /\ handles[h].kind = "thread" THEN handles[h].th
  ELSE NoThread

\* the wait of lines 49, 64 and 102 with a timeout of zero
WaitCanReturn_nowait(h, t) == TRUE

\* WaitForSingleObject(h, INFINITE) called by t can return
WaitCanReturn(h, t) ==
  IF h = CurrentThreadPseudoHandle THEN FALSE
  ELSE IF ~IsOpen(h) THEN TRUE
  ELSE CASE handles[h].kind = "event"  -> handles[h].sig
         [] handles[h].kind = "thread" -> Terminated(handles[h].th)
         [] handles[h].kind = "mutex"  ->
              /\ handles[h].owner \in {NoThread, t}
              /\ handles[h].count < MaxRecursion

\* what it returns; a mutex whose owner terminated while holding it is
\* handed over with WAIT_ABANDONED
WaitResult(h, t) ==
  IF ~IsOpen(h) THEN "WAIT_FAILED"
  ELSE IF handles[h].kind = "mutex" /\ handles[h].abandoned
       THEN "WAIT_ABANDONED"
       ELSE "WAIT_OBJECT_0"

\* the handle table after the wait returned
AfterWait(h, t) ==
  IF ~IsOpen(h) THEN handles
  ELSE CASE handles[h].kind = "event"  ->
              [handles EXCEPT ![h].sig = FALSE]
         [] handles[h].kind = "thread" -> handles
         [] handles[h].kind = "mutex"  ->
              [handles EXCEPT ![h].owner = t, ![h].count = @ + 1,
                              ![h].abandoned = FALSE]

\* a SetEvent of line 35 that signals nothing
AfterSetEvent_lost(h) == handles

\* SetEvent(h)
AfterSetEvent(h) ==
  IF IsOpen(h) /\ handles[h].kind = "event"
  THEN [handles EXCEPT ![h].sig = TRUE]
  ELSE handles

\* CloseHandle(h)
AfterCloseHandle(h) ==
  IF IsOpen(h) THEN [handles EXCEPT ![h] = NoObj] ELSE handles

\* ReleaseMutex(h) called by t succeeds
ReleaseMutexOK(h, t) ==
  IsOpen(h) /\ handles[h].kind = "mutex" /\ handles[h].owner = t

\* the handle table after ReleaseMutex(h) called by t
AfterReleaseMutex(h, t) ==
  IF ReleaseMutexOK(h, t)
  THEN [handles EXCEPT ![h].count = @ - 1,
                       ![h].owner = IF handles[h].count = 1 THEN NoThread ELSE t]
  ELSE handles

\* the handle table after thread n terminated: the mutexes it still owns
\* are abandoned
AfterThreadExit(n) ==
  [h \in HandleVals |->
     IF handles[h].kind = "mutex" /\ handles[h].owner = n
     THEN [handles[h] EXCEPT !.owner = NoThread, !.count = 0,
                             !.abandoned = TRUE]
     ELSE handles[h]]

\* GetExitCodeThread(h, &status): the values status can hold afterwards; when
\* the call fails status keeps the uninitialised value it had
GetExitCodeThread(h, t) ==
  LET n == ThreadOf(h, t)
  IN  IF n = NoThread THEN Words \cup {0, STILL_ACTIVE}
      ELSE IF Terminated(n) THEN {exitCode[n]}
      ELSE {STILL_ACTIVE}

\* --------------------------------------------------------- thread adapter
pthread_self(t) == GetCurrentThread(t)

pthread_equal(t1, t2) == t1 = t2

NoInfo == [start_routine |-> NoRoutine, arg |-> JunkArg, event |-> NULL]

\* a completed call: the calling thread, its operands x, y, the threads dx, dy
\* they stand for, its return code and what it stored through its out parameter
NoCall == [op |-> "none", by |-> NoThread, x |-> NULL, y |-> NULL,
           dx |-> NoThread, dy |-> NoThread, rc |-> 0, val |-> NullPtr]

\* the client code of t is between two calls of the API
Idle(t) == pc[t] = "idle"

InitWith(q) ==
  /\ pc = [t \in Threads |-> IF t = 0 THEN "idle" ELSE "unborn"]
  /\ handles = [h \in HandleVals |-> NoObj]
  /\ exitCode = [t \in Threads |-> 0]
  /\ info = [t \in Threads |-> NoInfo]
  /\ cslot = [t \in Threads |-> NULL]
  /\ creatorOf = [t \in Threads |-> NoThread]
  /\ ctxLive = [t \in Threads |-> FALSE]
  /\ tinfo = [t \in Threads |-> NoInfo]
  /\ tvar = [s \in Slots |-> NULL]
  /\ sstate = [s \in Slots |-> "free"]
  /\ jh = [t \in Threads |-> NULL]
  /\ jrv = [t \in Threads |-> FALSE]
  /\ mtx = [m \in Mutexes |-> NULL]
  /\ mstate = [m \in Mutexes |-> "uninit"]
  /\ lk = [t \in Threads |-> [m \in Mutexes |-> "none"]]
  /\ asked = [t \in Threads |-> <<NoRoutine, JunkArg>>]
  /\ invoked = [t \in Threads |-> <<>>]
  /\ retV = [t \in Threads |-> NullPtr]
  /\ last = NoCall
  /\ quota = q
  /\ counter = 0
  /\ tmp = [n \in Started |-> 0]
  /\ wpc = [n \in Started |-> "lock"]
  /\ iter = [n \in Started |-> 0]

Init == InitWith(MaxThreads)

\* pthread_create, lines 43-47: the trampoline context is built in the
\* caller's frame; CreateEventA yields a handle, or NULL when it fails
CreateBuildInfo(t, s, r, a, ok) ==
  /\ Idle(t)
  /\ sstate[s] = "free"
  /\ ok => FreeHandles # {}
  /\ info' = [info EXCEPT ![t] = [start_routine |-> r, arg |-> a,
                                  event |-> IF ok THEN NewHandle ELSE NULL]]
  /\ handles' = IF ok THEN [handles EXCEPT ![NewHandle] = EventObj] ELSE handles
  /\ cslot' = [cslot EXCEPT ![t] = s]
  /\ sstate' = [sstate EXCEPT ![s] = "creating"]
  /\ pc' = [pc EXCEPT ![t] = "create_thread"]
  /\ UNCHANGED <<exitCode, creatorOf, ctxLive, tinfo, tvar, jh, jrv, mtx,
                 mstate, lk, asked, invoked, retV, last>>
  /\ UNCHANGED <<quota, cvars>>

\* line 48: CreateThread starts a thread at the trampoline with p = &info and
\* its handle is stored in *thread; when it fails *thread is NULL
CreateThreadCall(t, ok) ==
  /\ pc[t] = "create_thread"
  /\ ok => (FreeHandles # {} /\ quota > 0)
  /\ quota' = IF ok THEN quota - 1 ELSE quota
  /\ IF ok
     THEN LET n == CHOOSE n \in Started :
                     /\ pc[n] = "unborn"
                     /\ \A k \in Started : pc[k] = "unborn" => n <= k
              h == NewHandle
          IN  /\ handles' = [handles EXCEPT ![h] = ThreadObj(n)]
              /\ tvar' = [tvar EXCEPT ![cslot[t]] = h]
              /\ pc' = [pc EXCEPT ![t] = "create_wait", ![n] = "tramp_copy"]
              /\ creatorOf' = [creatorOf EXCEPT ![n] = t]
              /\ ctxLive' = [ctxLive EXCEPT ![n] = TRUE]
              /\ asked' = [asked EXCEPT
                             ![n] = <<info[t].start_routine, info[t].arg>>]
     ELSE /\ tvar' = [tvar EXCEPT ![cslot[t]] = NULL]
          /\ pc' = [pc EXCEPT ![t] = "create_wait"]
          /\ UNCHANGED <<handles, creatorOf, ctxLive, asked>>
  /\ UNCHANGED <<exitCode, info, cslot, tinfo, sstate, jh, jrv, mtx,
                 mstate, lk, invoked, retV, last>>
  /\ UNCHANGED cvars

\* line 49: WaitForSingleObject(info.event, INFINITE)
CreateWait(t) ==
  /\ pc[t] = "create_wait"
  /\ WaitCanReturn(info[t].event, t)
  /\ handles' = AfterWait(info[t].event, t)
  /\ pc' = [pc EXCEPT ![t] = "create_close"]
  /\ UNCHANGED <<exitCode, info, cslot, creatorOf, ctxLive, tinfo, tvar,
                 sstate, jh, jrv, mtx, mstate, lk, asked, invoked, retV,
                 last>>
  /\ UNCHANGED <<quota, cvars>>

\* line 50: CloseHandle(info.event)
CreateClose(t) ==
  /\ pc[t] = "create_close"
  /\ handles' = AfterCloseHandle(info[t].event)
  /\ pc' = [pc EXCEPT ![t] = "create_ret"]
  /\ UNCHANGED <<exitCode, info, cslot, creatorOf, ctxLive, tinfo, tvar,
                 sstate, jh, jrv, mtx, mstate, lk, asked, invoked, retV,
                 last>>
  /\ UNCHANGED <<quota, cvars>>

\* lines 51-55: the result, and the frame that holds info is gone
CreateResult(h) == IF h # NULL THEN 0 ELSE ENOMEM

CreateReturn(t) ==
  /\ pc[t] = "create_ret"
  /\ LET rc == CreateResult(tvar[cslot[t]])
     IN  /\ sstate' = [sstate EXCEPT
                         ![cslot[t]] = IF rc = 0 THEN "ok" ELSE "failed"]
         /\ last' = [NoCall EXCEPT !.op = "create", !.rc = rc]
  /\ ctxLive' = [n \in Threads |-> ctxLive[n] /\ creatorOf[n] # t]
  /\ info' = [info EXCEPT ![t] = NoInfo]
  /\ cslot' = [cslot EXCEPT ![t] = NULL]
  /\ pc' = [pc EXCEPT ![t] = "idle"]
  /\ UNCHANGED <<handles, exitCode, creatorOf, tinfo, tvar, jh, jrv, mtx,
                 mstate, lk, asked, invoked, retV>>
  /\ UNCHANGED <<quota, cvars>>

\* what a read of the creator's frame after pthread_create returned can yield
DeadFrame == [start_routine : Routines \cup {BadRoutine},
              arg : Args \cup {JunkArg},
              event : {NULL} \cup HandleVals]

\* line 33: info = *(struct pthread_create_trampoline_info*)p
TrampolineCopy(n) ==
  /\ pc[n] = "tramp_copy"
  /\ IF ctxLive[n]
     THEN tinfo' = [tinfo EXCEPT ![n] = info[creatorOf[n]]]
     ELSE \E g \in DeadFrame : tinfo' = [tinfo EXCEPT ![n] = g]
  /\ pc' = [pc EXCEPT ![n] = "tramp_signal"]
  /\ creatorOf' = [creatorOf EXCEPT ![n] = NoThread]
  /\ ctxLive' = [ctxLive EXCEPT ![n] = FALSE]
  /\ UNCHANGED <<handles, exitCode, info, cslot, tvar,
                 sstate, jh, jrv, mtx, mstate, lk, asked, invoked, retV,
                 last>>
  /\ UNCHANGED <<quota, cvars>>

\* line 35: SetEvent(info.event)
TrampolineSignal(n) ==
  /\ pc[n] = "tramp_signal"
  /\ handles' = AfterSetEvent(tinfo[n].event)
  /\ pc' = [pc EXCEPT ![n] = "tramp_call"]
  /\ UNCHANGED <<exitCode, info, cslot, creatorOf, ctxLive, tinfo, tvar,
                 sstate, jh, jrv, mtx, mstate, lk, asked, invoked, retV,
                 last>>
  /\ UNCHANGED <<quota, cvars>>

\* line 36: info.start_routine(info.arg) is entered; a call through a pointer
\* that is not a routine faults
TrampolineCall(n) ==
  /\ pc[n] = "tramp_call"
  /\ IF tinfo[n].start_routine \in Routines
     THEN /\ invoked' = [invoked EXCEPT ![n] =
                Append(@, <<tinfo[n].start_routine, tinfo[n].arg>>)]
          /\ pc' = [pc EXCEPT ![n] = "idle"]
     ELSE /\ pc' = [pc EXCEPT ![n] = "crashed"]
          /\ UNCHANGED invoked
  /\ tinfo' = [tinfo EXCEPT ![n] = NoInfo]
  /\ UNCHANGED <<handles, exitCode, info, cslot, creatorOf, ctxLive, tvar,
                 sstate, jh, jrv, mtx, mstate, lk, asked, retV, last>>
  /\ UNCHANGED <<quota, cvars>>

\* line 36: the start routine returns v, return (DWORD)v ends the thread
TrampolineReturn(n, v) ==
  /\ n \in Started
  /\ Idle(n)
  /\ retV' = [retV EXCEPT ![n] = v]
  /\ exitCode' = [exitCode EXCEPT ![n] = PtrToDWORD(v)]
  /\ pc' = [pc EXCEPT ![n] = "exited"]
  /\ handles' = AfterThreadExit(n)
  /\ UNCHANGED <<info, cslot, creatorOf, ctxLive, tinfo, tvar,
                 sstate, jh, jrv, mtx, mstate, lk, asked, invoked, last>>
  /\ UNCHANGED <<quota, cvars>>

\* lines 18-20: pthread_self, the result is kept in a pthread_t of the caller
SelfCall(t) ==
  /\ Idle(t)
  /\ last' = [NoCall EXCEPT !.op = "self", !.x = pthread_self(t), !.dx = t]
  /\ UNCHANGED <<pc, handles, exitCode, info, cslot, creatorOf, ctxLive, tinfo,
                 tvar, sstate, jh, jrv, mtx, mstate, lk, asked, invoked, retV>>
  /\ UNCHANGED <<quota, cvars>>

\* the pthread_t values client code of t can pass: what a running thread u
\* gets from pthread_self() (it stands for u) and what pthread_create stored
\* (it stands for the thread that CreateThread started)
SelfValues == {[val |-> pthread_self(u), den |-> u] :
                 u \in {w \in Threads : pc[w] = "idle"}}

SlotValues(t) == {[val |-> tvar[s], den |-> ThreadOf(tvar[s], t)] :
                    s \in {r \in Slots : sstate[r] = "ok"}}

\* lines 22-24: pthread_equal
EqualCall(t, a, b) ==
  /\ Idle(t)
  /\ a \in SelfValues \cup SlotValues(t)
  /\ b \in SelfValues \cup SlotValues(t)
  /\ last' = [NoCall EXCEPT !.op = "equal", !.by = t, !.x = a.val, !.y = b.val,
                            !.dx = a.den, !.dy = b.den,
                            !.rc = IF pthread_equal(a.val, b.val) THEN 1 ELSE 0]
  /\ UNCHANGED <<pc, handles, exitCode, info, cslot, creatorOf, ctxLive, tinfo,
                 tvar, sstate, jh, jrv, mtx, mstate, lk, asked, invoked,
                 retV>>
  /\ UNCHANGED <<quota, cvars>>

\* the test of line 59 written with the wrong operator
JoinIsSelf_inverted(thread, me) == thread # me

\* line 59: if (thread == me)
JoinIsSelf(thread, me) == thread = me

\* lines 57-62: pthread_join(thread, retval) up to the self-join test
JoinEnter(t, thread, rv) ==
  LET me == GetCurrentThread(t)
  IN  IF JoinIsSelf(thread, me)
      THEN /\ last' = [NoCall EXCEPT !.op = "join", !.by = t, !.x = thread,
                                     !.y = IF rv THEN 1 ELSE 0,
                                     !.dx = ThreadOf(thread, t),
                                     !.rc = EDEADLK]
           /\ UNCHANGED <<pc, jh, jrv>>
      ELSE /\ pc' = [pc EXCEPT ![t] = "join_wait"]
           /\ jh' = [jh EXCEPT ![t] = thread]
           /\ jrv' = [jrv EXCEPT ![t] = rv]
           /\ UNCHANGED last

\* pthread_join on a pthread_t that pthread_create stored
JoinCall(t, s, rv) ==
  /\ Idle(t)
  /\ sstate[s] = "ok"
  /\ JoinEnter(t, tvar[s], rv)
  /\ sstate' = [sstate EXCEPT
                  ![s] = IF JoinIsSelf(tvar[s], GetCurrentThread(t))
                         THEN "ok" ELSE "joining"]
  /\ UNCHANGED <<handles, exitCode, info, cslot, creatorOf, ctxLive, tinfo,
                 tvar, mtx, mstate, lk, asked, invoked, retV>>
  /\ UNCHANGED <<quota, cvars>>

\* pthread_join(pthread_self(), retval)
JoinSelfCall(t, rv) ==
  /\ Idle(t)
  /\ JoinEnter(t, pthread_self(t), rv)
  /\ UNCHANGED <<handles, exitCode, info, cslot, creatorOf, ctxLive, tinfo,
                 tvar, sstate, mtx, mstate, lk, asked, invoked, retV>>
  /\ UNCHANGED <<quota, cvars>>

\* line 64: WaitForSingleObject(thread, INFINITE)
JoinWait(t) ==
  /\ pc[t] = "join_wait"
  /\ WaitCanReturn(jh[t], t)
  /\ handles' = AfterWait(jh[t], t)
  /\ pc' = [pc EXCEPT ![t] = "join_exit"]
  /\ UNCHANGED <<exitCode, info, cslot, creatorOf, ctxLive, tinfo, tvar,
                 sstate, jh, jrv, mtx, mstate, lk, asked, invoked, retV,
                 last>>
  /\ UNCHANGED <<quota, cvars>>

\* lines 65-73: the exit code goes to *retval, the handle is closed
JoinFinish(t) ==
  /\ pc[t] = "join_exit"
  /\ \E status \in GetExitCodeThread(jh[t], t) :
       last' = [NoCall EXCEPT !.op = "join", !.by = t, !.x = jh[t],
                             !.y = IF jrv[t] THEN 1 ELSE 0,
                             !.dx = ThreadOf(jh[t], t),
                             !.rc = 0,
                             !.val = IF jrv[t] THEN DWORDToPtr(status)
                                     ELSE NullPtr]
  /\ handles' = AfterCloseHandle(jh[t])
  /\ sstate' = [s \in Slots |-> IF sstate[s] = "joining" /\ tvar[s] = jh[t]
                                 THEN "joined" ELSE sstate[s]]
  /\ jh' = [jh EXCEPT ![t] = NULL]
  /\ jrv' = [jrv EXCEPT ![t] = FALSE]
  /\ pc' = [pc EXCEPT ![t] = "idle"]
  /\ UNCHANGED <<exitCode, info, cslot, creatorOf, ctxLive, tinfo, tvar,
                 mtx, mstate, lk, asked, invoked, retV>>
  /\ UNCHANGED <<quota, cvars>>

\* line 79 reporting success
pthread_cancel_done(thread) == 0

\* lines 77-80: pthread_cancel
pthread_cancel(thread) == ENOSYS

CancelCall(t, a) ==
  /\ Idle(t)
  /\ a \in SelfValues \cup SlotValues(t)
  /\ last' = [NoCall EXCEPT !.op = "cancel", !.x = a.val, !.dx = a.den,
                            !.rc = pthread_cancel(a.val)]
  /\ UNCHANGED <<pc, handles, exitCode, info, cslot, creatorOf, ctxLive, tinfo,
                 tvar, sstate, jh, jrv, mtx, mstate, lk, asked, invoked,
                 retV>>
  /\ UNCHANGED <<quota, cvars>>

\* lines 82-84: pthread_testcancel
TestCancelCall(t) ==
  /\ Idle(t)
  /\ last' = [NoCall EXCEPT !.op = "testcancel"]
  /\ UNCHANGED <<pc, handles, exitCode, info, cslot, creatorOf, ctxLive, tinfo,
                 tvar, sstate, jh, jrv, mtx, mstate, lk, asked, invoked,
                 retV>>
  /\ UNCHANGED <<quota, cvars>>

\* ---------------------------------------------------------- mutex adapter
\* the address of the client's m-th pthread_mutex_t variable; handle values
\* are small indices of the process handle table, the address of a variable
\* is none of them
AddrOf(m) == MaxHandles + m

\* lines 88, 102, 109: the HANDLE argument of CloseHandle, WaitForSingleObject
\* and ReleaseMutex is the parameter mutex (a pthread_mutex_t *) itself
MutexHandleArg(m) == AddrOf(m)

\* lines 95-98 returning 0 without the test of *mutex
InitResult_unchecked(h) == 0

\* lines 95-98: the result of pthread_mutex_init
InitResult(h) == IF h # NULL THEN 0 ELSE ENOMEM

\* lines 92-99: pthread_mutex_init
MutexInit(t, m, ok) ==
  /\ Idle(t)
  /\ mstate[m] = "uninit"
  /\ ok => FreeHandles # {}
  /\ mtx' = [mtx EXCEPT ![m] = IF ok THEN NewHandle ELSE NULL]
  /\ handles' = IF ok THEN [handles EXCEPT ![NewHandle] = MutexObj] ELSE handles
  /\ mstate' = [mstate EXCEPT ![m] = IF ok THEN "inited" ELSE "failed"]
  /\ last' = [NoCall EXCEPT !.op = "mutex_init", !.x = m,
                            !.rc = InitResult(mtx'[m])]
  /\ UNCHANGED <<pc, exitCode, info, cslot, creatorOf, ctxLive, tinfo, tvar,
                 sstate, jh, jrv, lk, asked, invoked, retV>>
  /\ UNCHANGED <<quota, cvars>>

\* the test of line 102 written with the wrong operator
LockResult_inverted(w) == IF w # "WAIT_OBJECT_0" THEN 0 ELSE EINVAL

\* lines 101-106: pthread_mutex_lock
LockResult(w) == IF w = "WAIT_OBJECT_0" THEN 0 ELSE EINVAL

pthread_mutex_lock(t, m) ==
  /\ Idle(t)
  /\ mstate[m] = "inited"
  /\ lk[t][m] = "none"
  /\ WaitCanReturn(MutexHandleArg(m), t)
  /\ handles' = AfterWait(MutexHandleArg(m), t)
  /\ LET rc == LockResult(WaitResult(MutexHandleArg(m), t))
     IN  /\ lk' = [lk EXCEPT ![t][m] = IF rc = 0 THEN "ok" ELSE "failed"]
         /\ last' = [NoCall EXCEPT !.op = "mutex_lock", !.rc = rc]
  /\ UNCHANGED <<pc, exitCode, info, cslot, creatorOf, ctxLive, tinfo, tvar,
                 sstate, jh, jrv, mtx, mstate, asked, invoked, retV, quota>>

\* a call of pthread_mutex_lock by any client
MutexLock(t, m) == pthread_mutex_lock(t, m) /\ UNCHANGED cvars

\* lines 109-110 with the result of ReleaseMutex handed to the caller
UnlockResult_surfaced(released) == IF released THEN 0 ELSE EINVAL

\* lines 109-110: the result of ReleaseMutex is dropped
UnlockResult(released) == 0

\* lines 108-111: pthread_mutex_unlock
pthread_mutex_unlock(t, m) ==
  /\ Idle(t)
  /\ mstate[m] = "inited"
  /\ lk[t][m] # "none"
  /\ handles' = AfterReleaseMutex(MutexHandleArg(m), t)
  /\ lk' = [lk EXCEPT ![t][m] = "none"]
  /\ last' = [NoCall EXCEPT
       !.op = "mutex_unlock",
       !.y = IF ReleaseMutexOK(MutexHandleArg(m), t) THEN 1 ELSE 0,
       !.rc = UnlockResult(ReleaseMutexOK(MutexHandleArg(m), t))]
  /\ UNCHANGED <<pc, exitCode, info, cslot, creatorOf, ctxLive, tinfo, tvar,
                 sstate, jh, jrv, mtx, mstate, asked, invoked, retV, quota>>

\* a call of pthread_mutex_unlock by any client
MutexUnlock(t, m) == pthread_mutex_unlock(t, m) /\ UNCHANGED cvars

\* lines 88-89: the result of CloseHandle is dropped
DestroyResult(closed) == 0

\* lines 87-90: pthread_mutex_destroy
MutexDestroy(t, m) ==
  /\ Idle(t)
  /\ mstate[m] = "inited"
  /\ handles' = AfterCloseHandle(MutexHandleArg(m))
  /\ mstate' = [mstate EXCEPT ![m] = "destroyed"]
  /\ last' = [NoCall EXCEPT
       !.op = "mutex_destroy", !.x = m,
       !.y = IF IsOpen(MutexHandleArg(m)) THEN 1 ELSE 0,
       !.rc = DestroyResult(IsOpen(MutexHandleArg(m)))]
  /\ UNCHANGED <<pc, exitCode, info, cslot, creatorOf, ctxLive, tinfo, tvar,
                 sstate, jh, jrv, mtx, lk, asked, invoked, retV>>
  /\ UNCHANGED <<quota, cvars>>

\* ------------------------------------------------- the counter scenario
\* The client of the end-to-end scenario: the first thread initialises one
\* mutex, starts Workers threads and joins them; the start routine of each
\* makes Iterations times lock, read counter, write counter + 1, unlock, as
\* the scenario states it, without a test of what lock returned.
TheMutex == 1

\* the start routine calls pthread_mutex_lock(&m)
WorkerLock(n) ==
  /\ n \in Started
  /\ wpc[n] = "lock"
  /\ iter[n] < Iterations
  /\ pthread_mutex_lock(n, TheMutex)
  /\ wpc' = [wpc EXCEPT ![n] = "read"]
  /\ UNCHANGED <<counter, tmp, iter>>

\* the start routine reads the shared counter
WorkerRead(n) ==
  /\ n \in Started
  /\ Idle(n)
  /\ wpc[n] = "read"
  /\ tmp' = [tmp EXCEPT ![n] = counter]
  /\ wpc' = [wpc EXCEPT ![n] = "write"]
  /\ UNCHANGED <<pc, handles, exitCode, info, cslot, creatorOf, ctxLive, tinfo,
                 tvar, sstate, jh, jrv, mtx, mstate, lk, asked, invoked, retV,
                 last, quota, counter, iter>>

\* the start routine writes the value it read plus one
WorkerWrite(n) ==
  /\ n \in Started
  /\ Idle(n)
  /\ wpc[n] = "write"
  /\ counter' = tmp[n] + 1
  /\ tmp' = [tmp EXCEPT ![n] = 0]
  /\ wpc' = [wpc EXCEPT ![n] = "unlock"]
  /\ UNCHANGED <<pc, handles, exitCode, info, cslot, creatorOf, ctxLive, tinfo,
                 tvar, sstate, jh, jrv, mtx, mstate, lk, asked, invoked, retV,
                 last, quota, iter>>

\* the start routine calls pthread_mutex_unlock(&m) and loops
WorkerUnlock(n) ==
  /\ n \in Started
  /\ wpc[n] = "unlock"
  /\ pthread_mutex_unlock(n, TheMutex)
  /\ iter' = [iter EXCEPT ![n] = @ + 1]
  /\ wpc' = [wpc EXCEPT ![n] = IF iter[n] + 1 = Iterations THEN "done"
                                                           ELSE "lock"]
  /\ UNCHANGED <<counter, tmp>>

\* the start routine returns after its last increment
WorkerReturn(n, v) ==
  /\ wpc[n] = "done"
  /\ TrampolineReturn(n, v)

\* the first thread starts a worker once the mutex exists
MainCreate(s, r, a) ==
  /\ mstate[TheMutex] = "inited"
  /\ quota > 0
  /\ CreateBuildInfo(0, s, r, a, TRUE)

\* the first thread joins the workers once all of them are started
MainJoin(s, rv) ==
  /\ quota = 0
  /\ \A x \in Slots : sstate[x] # "creating"
  /\ JoinCall(0, s, rv)

\* ------------------------------------------------------------ the program
Next ==
  \/ \E t \in Threads, s \in Slots, r \in Routines, a \in Args, ok \in BOOLEAN :
        CreateBuildInfo(t, s, r, a, ok)
  \/ \E t \in Threads, ok \in BOOLEAN : CreateThreadCall(t, ok)
  \/ \E t \in Threads : CreateWait(t)
  \/ \E t \in Threads : CreateClose(t)
  \/ \E t \in Threads : CreateReturn(t)
  \/ \E n \in Started : TrampolineCopy(n)
  \/ \E n \in Started : TrampolineSignal(n)
  \/ \E n \in Started : TrampolineCall(n)
  \/ \E n \in Started, v \in PtrVals : TrampolineReturn(n, v)
  \/ \E t \in Threads : SelfCall(t)
  \/ \E t \in Threads : \E a, b \in SelfValues \cup SlotValues(t) :
        EqualCall(t, a, b)
  \/ \E t \in Threads, s \in Slots, rv \in BOOLEAN : JoinCall(t, s, rv)
  \/ \E t \in Threads, rv \in BOOLEAN : JoinSelfCall(t, rv)
  \/ \E t \in Threads : JoinWait(t)
  \/ \E t \in Threads : JoinFinish(t)
  \/ \E t \in Threads : \E a \in SelfValues \cup SlotValues(t) : CancelCall(t, a)
  \/ \E t \in Threads : TestCancelCall(t)
  \/ \E t \in Threads, m \in Mutexes, ok \in BOOLEAN : MutexInit(t, m, ok)
  \/ \E t \in Threads, m \in Mutexes : MutexLock(t, m)
  \/ \E t \in Threads, m \in Mutexes : MutexUnlock(t, m)
  \/ \E t \in Threads, m \in Mutexes : MutexDestroy(t, m)

Spec == Init /\ [][Next]_vars

\* the counter scenario: every native allocation succeeds
CounterInit == InitWith(Workers)

CounterNext ==
  \/ MutexInit(0, TheMutex, TRUE)
  \/ \E s \in Slots, r \in Routines, a \in Args : MainCreate(s, r, a)
  \/ CreateThreadCall(0, TRUE)
  \/ CreateWait(0)
  \/ CreateClose(0)
  \/ CreateReturn(0)
  \/ \E n \in Started : TrampolineCopy(n)
  \/ \E n \in Started : TrampolineSignal(n)
  \/ \E n \in Started : TrampolineCall(n)
  \/ \E n \in Started : WorkerLock(n)
  \/ \E n \in Started : WorkerRead(n)
  \/ \E n \in Started : WorkerWrite(n)
  \/ \E n \in Started : WorkerUnlock(n)
  \/ \E n \in Started, v \in PtrVals : WorkerReturn(n, v)
  \/ \E s \in Slots, rv \in BOOLEAN : MainJoin(s, rv)
  \/ JoinWait(0)
  \/ JoinFinish(0)

CounterSpec == CounterInit /\ [][CounterNext]_vars

\* the creation handshake alone: lines 32-55, every call of pthread_create
\* and every step of the threads it starts
HandshakeNext ==
  \/ \E t \in Threads, s \in Slots, r \in Routines, a \in Args, ok \in BOOLEAN :
        CreateBuildInfo(t, s, r, a, ok)
  \/ \E t \in Threads, ok \in BOOLEAN : CreateThreadCall(t, ok)
  \/ \E t \in Threads : CreateWait(t)
  \/ \E t \in Threads : CreateClose(t)
  \/ \E t \in Threads : CreateReturn(t)
  \/ \E n \in Started : TrampolineCopy(n)
  \/ \E n \in Started : TrampolineSignal(n)
  \/ \E n \in Started : TrampolineCall(n)
  \/ \E n \in Started, v \in PtrVals : TrampolineReturn(n, v)

\* the scheduler runs every thread that can take a step of the adapter: the
\* body of pthread_create once it is entered and the trampoline up to the
\* call of the start routine; nothing is assumed of the client (when it
\* calls pthread_create) nor of the start routine (whether it returns)
FairHandshake ==
  /\ Init
  /\ [][HandshakeNext]_vars
  /\ \A t \in Threads :
       /\ WF_vars(\E ok \in BOOLEAN : CreateThreadCall(t, ok))
       /\ WF_vars(CreateWait(t))
       /\ WF_vars(CreateClose(t))
       /\ WF_vars(CreateReturn(t))
  /\ \A n \in Started :
       /\ WF_vars(TrampolineCopy(n))
       /\ WF_vars(TrampolineSignal(n))

TypeOK ==
  /\ pc \in [Threads -> {"unborn", "idle", "create_thread", "create_wait",
                         "create_close", "create_ret", "tramp_copy",
                         "tramp_signal", "tramp_call", "crashed", "exited",
                         "join_wait", "join_exit"}]
  /\ tvar \in [Slots -> {NULL} \cup HandleVals]
  /\ \A t \in Threads : Len(invoked[t]) <= 1
  /\ quota \in 0 .. NThreads
  /\ counter \in 0 .. Workers * Iterations
  /\ tmp \in [Started -> 0 .. Workers * Iterations]
  /\ wpc \in [Started -> {"lock", "read", "write", "unlock", "done"}]
  /\ iter \in [Started -> 0 .. Iterations]

\* ------------------------------------------------------------- properties
\* the trampoline of n has made (or failed to make) its call of the routine
PastCall(n) == pc[n] \notin {"unborn", "tramp_copy", "tramp_signal", "tramp_call"}

\* t is in pthread_create and past its CreateThread call (line 48)
PastCreateThread(t) == pc[t] \in {"create_wait", "create_close", "create_ret"}

\* C1: as long as a started thread has not copied the trampoline context,
\* the pthread_create call that started it has not returned (the trampoline
\* never reads the context after pthread_create returned).
C1_CopyBeforeCreateReturns ==
  \A n \in Started : pc[n] = "tramp_copy" => ctxLive[n]

\* C2: between pthread_mutex_init and pthread_mutex_destroy of a mutex,
\* every thread that is past a return of pthread_mutex_lock and before its
\* pthread_mutex_unlock got 0 from lock, and is the only such thread.
C2_OneHolder ==
  \A m \in Mutexes : \A t \in Threads :
    (mstate[m] = "inited" /\ lk[t][m] # "none") =>
      /\ lk[t][m] = "ok"
      /\ \A u \in Threads \ {t} : lk[u][m] = "none"

\* C3: when CreateThread yielded no handle, no thread was started, the
\* pthread_create call is not held up in its wait, and it returns ENOMEM.
C3_CreateThreadFailureReturnsENOMEM ==
  \A t \in Threads :
    (PastCreateThread(t) /\ tvar[cslot[t]] = NULL) =>
      /\ \A n \in Started : creatorOf[n] # t
      /\ pc[t] = "create_wait" => WaitCanReturn(info[t].event, t)
      /\ pc[t] = "create_ret" => CreateResult(tvar[cslot[t]]) = ENOMEM

\* C4: when CreateEventA failed, pthread_create starts no thread and fails.
C4_EventFailureStartsNoThread ==
  \A t \in Threads :
    (PastCreateThread(t) /\ info[t].event = NULL) =>
      /\ tvar[cslot[t]] = NULL
      /\ pc[t] = "create_ret" => CreateResult(tvar[cslot[t]]) # 0

\* C5: a thread that called pthread_join with a handle of itself is never
\* in the wait of pthread_join.
C5_SelfJoinNeverWaits ==
  \A t \in Threads :
    pc[t] \in {"join_wait", "join_exit"} => ThreadOf(jh[t], t) # t

\* C6: pthread_join(pthread_self(), ...) returns EDEADLK, and no thread is
\* ever in the wait of pthread_join with the handle pthread_self() gives it.
C6_JoinOfSelfIsEDEADLK ==
  /\ (last.op = "join" /\ last.x = pthread_self(last.by)) => last.rc = EDEADLK
  /\ \A t \in Threads :
       pc[t] \in {"join_wait", "join_exit"} => jh[t] # pthread_self(t)

\* C6 witness: a pthread_join(pthread_self(), ...) has returned EDEADLK
C6_Witness ==
  /\ last.op = "join"
  /\ last.by \in Started
  /\ last.x = pthread_self(last.by)
  /\ last.rc = EDEADLK
  /\ pc[last.by] = "idle"

\* C7: pthread_equal(pthread_self(), h) called in a started thread T with
\* the handle h that pthread_create stored for T is true.
C7_SelfEqualsCreatedHandle ==
  (/\ last.op = "equal"
   /\ last.by \in Started
   /\ last.x = pthread_self(last.by)
   /\ last.dx = last.by
   /\ last.y \in HandleVals
   /\ last.dy = last.by) => last.rc = 1

\* C8: pthread_equal(a, b) is true exactly when a and b stand for the same
\* thread.
C8_EqualIffSameThread ==
  last.op = "equal" => (last.rc = 1 <=> last.dx = last.dy)

\* C9: once the trampoline of a started thread has made its call, it has
\* called the routine given to pthread_create exactly once, with the
\* argument given to pthread_create.
C9_RoutineCalledOnceWithArg ==
  \A n \in Started : PastCall(n) => invoked[n] = <<asked[n]>>

\* C10: a pthread_join that returned 0 and had a non-null retval stored in
\* *retval the value the start routine of the joined thread returned.
C10_JoinYieldsRoutineValue ==
  (/\ last.op = "join"
   /\ last.rc = 0
   /\ last.y = 1
   /\ last.dx \in Started) => last.val = retV[last.dx]

\* the native mutex behind the m-th pthread_mutex_t is owned by thread t
Owns(t, m) == IsOpen(mtx[m]) /\ handles[mtx[m]].kind = "mutex"
              /\ handles[mtx[m]].owner = t

\* C11: as long as the first thread is the only thread of the process, every
\* pthread_mutex_init whose allocation succeeded and every
\* pthread_mutex_lock, pthread_mutex_unlock and pthread_mutex_destroy that
\* followed it returned 0.
C11_RoundTripReturnsZero ==
  (\A n \in Started : pc[n] = "unborn") =>
    /\ (last.op = "mutex_init" /\ mtx[last.x] # NULL) => last.rc = 0
    /\ last.op \in {"mutex_lock", "mutex_unlock", "mutex_destroy"}
         => last.rc = 0

C14_DestroyReleasesNativeMutex ==
  \A m \in Mutexes : mstate[m] = "destroyed" => ~IsOpen(mtx[m])

\* C15: pthread_mutex_init either returned 0 and stored the handle of an
\* unowned native mutex, or returned ENOMEM and stored NULL.
C15_InitResult ==
  last.op = "mutex_init" =>
    \/ /\ last.rc = 0
       /\ mstate[last.x] = "inited"
       /\ IsOpen(mtx[last.x])
       /\ handles[mtx[last.x]] = MutexObj
    \/ /\ last.rc = ENOMEM
       /\ mstate[last.x] = "failed"
       /\ mtx[last.x] = NULL

\* C15 witness: a failed allocation, reported as ENOMEM with a NULL handle
C15_Witness ==
  /\ last.op = "mutex_init"
  /\ last.rc = ENOMEM
  /\ mtx[last.x] = NULL

\* C16: a step that completes pthread_cancel returns ENOSYS, a step that
\* completes pthread_cancel or pthread_testcancel changes nothing of the
\* threads, the handles, the exit codes or the client's variables.
C16_CancelChangesNothing ==
  [][(last' # last /\ last'.op \in {"cancel", "testcancel"}) =>
       /\ last'.op = "cancel" => last'.rc = ENOSYS
       /\ UNCHANGED <<pc, handles, exitCode, info, cslot, creatorOf, ctxLive,
                      tinfo, tvar, sstate, jh, jrv, mtx, mstate, lk, asked,
                      invoked, retV, quota, cvars>>]_vars

\* C16 witness: pthread_cancel on the handle of a started thread that is
\* running its routine returned ENOSYS, the thread still runs
C16_Witness ==
  /\ last.op = "cancel"
  /\ last.rc = ENOSYS
  /\ last.x \in HandleVals
  /\ last.dx \in Started
  /\ pc[last.dx] = "idle"

\* C17: pthread_mutex_unlock and pthread_mutex_destroy returned 0, also
\* when the native call failed.
C17_UnlockDestroyReturnZero ==
  last.op \in {"mutex_unlock", "mutex_destroy"} => last.rc = 0

\* C17 witness: an unlock whose ReleaseMutex failed (the caller does not own
\* the native mutex) returned 0
C17_Witness ==
  /\ last.op = "mutex_unlock"
  /\ last.y = 0
  /\ last.rc = 0
  /\ \A m \in Mutexes : \A t \in Threads : ~Owns(t, m)

C18_CreateReturns ==
  \A t \in Threads : \A s \in Slots :
    (pc[t] = "create_wait" /\ cslot[t] = s /\ info[t].event # NULL
       /\ tvar[s] # NULL)
      ~> (sstate[s] = "ok" /\ last.op = "create" /\ last.rc = 0)

\* C18 witness: pthread_create, with its event and its thread created, is
\* past the wait and the close and at its return while the start routine
\* of the new thread has not returned
C18_Witness ==
  \E t \in Threads :
    /\ pc[t] = "create_ret"
    /\ info[t].event # NULL
    /\ tvar[cslot[t]] # NULL
    /\ CreateResult(tvar[cslot[t]]) = 0
    /\ \E n \in Started : pc[n] = "idle" /\ handles[tvar[cslot[t]]].th = n

\* C19: the event a pthread_create call created stays open until the
\* creator is past the wait of line 49, and the call eventually releases it
\* and is at its return.
C19_EventReleasedOnce ==
  /\ [](\A t \in Threads :
         (pc[t] \in {"create_thread", "create_wait"} /\ info[t].event # NULL)
           => (IsOpen(info[t].event)
                 /\ handles[info[t].event].kind = "event"))
  /\ \A t \in Threads :
       (pc[t] = "create_thread" /\ info[t].event # NULL)
         ~> (pc[t] = "create_ret" /\ ~IsOpen(info[t].event))

\* C12: once the first thread has started Workers threads and joined every
\* one of them, the shared counter equals Workers * Iterations.
C12_CounterIsNK ==
  (/\ quota = 0
   /\ Idle(0)
   /\ \A s \in Slots : sstate[s] \in {"free", "joined"}
   /\ \A n \in Started : Terminated(n))
    => counter = Workers * Iterations

====
